---- MODULE Spec2Model ----
(***************************************************************************)
(* Log ingestion pipeline: the Ingestion Gateway (src/api/main.py, POST    *)
(* /ingest), the push queue between the two services, and the Processing   *)
(* Worker (src/worker/worker.py, POST /process) with its tenant store.     *)
(***************************************************************************)
EXTENDS Integers, Sequences, FiniteSets, TLC

\* ------------------------------------------------------------------ bounds
\* /ingest requests handled in one behaviour
MaxIngest == 2
\* envelopes put on the subscription by a producer other than the Gateway
MaxInject == 2
\* messages on the subscription
MaxQueue == 2
\* push attempts the queue makes for one message
MaxDeliveries == 2

\* ------------------------------------------------------------ JSON values
\* A JSON / Python value: a string (sequence of characters), a number, None.
\* Absent marks a key the object does not carry.
Str(s) == [k |-> "str", s |-> s, n |-> 0]
Num(n) == [k |-> "num", s |-> <<>>, n |-> n]
Null == [k |-> "null", s |-> <<>>, n |-> 0]

\* Python truthiness, as used by `not x`: None, "" and 0 are falsy.
Truthy(v) == \/ v.k = "str" /\ v.s # <<>>
             \/ v.k = "num" /\ v.n # 0

\* A dict as the sequence of its (key, value) items.
Item(key, value) == [key |-> key, value |-> value]

\* dict.get(key, default): the value of the last item with that key.
DictGet(pairs, key, default) ==
  LET hits == {i \in 1..Len(pairs) : pairs[i].key = key}
  IN  IF hits = {} THEN default
      ELSE pairs[CHOOSE i \in hits : \A j \in hits : j <= i].value

\* --------------------------------------------------------------- strings
Whitespace == {" ", "\t", "\n"}

RECURSIVE LStrip(_)
LStrip(s) == IF s # <<>> /\ Head(s) \in Whitespace THEN LStrip(Tail(s)) ELSE s

RECURSIVE RStrip(_)
RStrip(s) == IF s # <<>> /\ s[Len(s)] \in Whitespace
             THEN RStrip(SubSeq(s, 1, Len(s) - 1)) ELSE s

\* str.strip()
Strip(s) == RStrip(LStrip(s))

IsPrefix(p, s) == Len(p) <= Len(s) /\ SubSeq(s, 1, Len(p)) = p

\* str.replace(old, new): leftmost non-overlapping occurrences, old non-empty
RECURSIVE StrReplace(_, _, _)
StrReplace(s, old, new) ==
  IF s = <<>> THEN <<>>
  ELSE IF IsPrefix(old, s)
       THEN new \o StrReplace(SubSeq(s, Len(old) + 1, Len(s)), old, new)
       ELSE <<Head(s)>> \o StrReplace(Tail(s), old, new)

PhonePrefix == <<"5", "5", "5", "-">>
Redacted == <<"[", "R", "E", "D", "A", "C", "T", "E", "D", "]", "-">>

\* ----------------------------------------------------------------- bytes
\* A byte string, described by what the decoders make of it: whether it is
\* valid UTF-8 (chars: its text), whether that text is JSON, whether the
\* JSON value is an object (pairs: its items).
RawBytes(chars) ==
  [utf8 |-> TRUE, chars |-> chars, json |-> FALSE, object |-> FALSE, pairs |-> <<>>]
InvalidBytes ==
  [utf8 |-> FALSE, chars |-> <<>>, json |-> FALSE, object |-> FALSE, pairs |-> <<>>]
JsonArrayBytes ==
  [utf8 |-> TRUE, chars |-> <<"[", "]">>, json |-> TRUE, object |-> FALSE, pairs |-> <<>>]
JsonObjectBytes(pairs) ==
  [utf8 |-> TRUE, chars |-> <<"{", "}">>, json |-> TRUE, object |-> TRUE, pairs |-> pairs]

\* json.dumps(message).encode("utf-8"): None is written as null, a string as
\* a string, every key of the dict is written.
JsonDumps(message) ==
  JsonObjectBytes(<<Item("tenant_id", message.tenant_id),
                    Item("log_id", message.log_id),
                    Item("text", message.text),
                    Item("source", message.source)>>)

\* json.loads / request.json(): the exception it raises, or "none"
JsonLoadsError(bytes) ==
  IF ~bytes.utf8 THEN "UnicodeDecodeError"
  ELSE IF ~bytes.json THEN "JSONDecodeError"
  ELSE "none"

\* data.get(key, default) on the parsed value; a non-object has no .get
GetError(bytes) == IF bytes.object THEN "none" ELSE "AttributeError"

\* base64: the encoded form of a byte string, or text that is not base64
B64Encode(bytes) == [valid |-> TRUE, bytes |-> bytes]
NotBase64 == [valid |-> FALSE, bytes |-> InvalidBytes]

\* The push envelope {"message": {"data": <base64>, ...}} the subscription
\* posts to /process, described by what the Worker reads of it.
Envelope(json, hasMessage, hasData, data) ==
  [json |-> json, hasMessage |-> hasMessage, hasData |-> hasData, data |-> data]
WrapPush(bytes) == Envelope(TRUE, TRUE, TRUE, B64Encode(bytes))

\* ------------------------------------------------------------- constants
SourceJson == Str(<<"j", "s", "o", "n">>)
SourceText == Str(<<"t", "e", "x", "t", "_", "u", "p", "l", "o", "a", "d">>)
SourceUnknown == Str(<<"u", "n", "k", "n", "o", "w", "n">>)

Digits == <<"1", "2", "3", "4", "5", "6", "7", "8", "9">>
\* str(uuid.uuid4()): the n-th identifier drawn by this process.  A version-4
\* UUID carries 122 random bits; two draws are taken to differ.
Uuid(n) == Str(<<"u", "u", "i", "d", "-", Digits[n]>>)

\* ------------------------------------------------------ state of the system
VARIABLES
  mode,        \* "production": publisher configured; "dev": publisher is None
  queue,       \* envelopes on the push subscription, in publish order
  push,        \* per message: delivery state kept by the queue and the handler
  store,       \* the documents of the tenant store
  clock,       \* the store's server time
  nIngest,     \* /ingest requests handled
  uuidCtr,     \* uuid4 values drawn by the Gateway
  ingestResp,  \* the last /ingest request and its response
  accepted,    \* every /ingest call that returned normally
  nInject,     \* envelopes put on the subscription by other producers
  firstDoc     \* per payload, the content written by its first successful /process

vars == <<mode, queue, push, store, clock, nIngest, uuidCtr, ingestResp,
          accepted, nInject, firstDoc>>

\* -------------------------------------------------------------- Gateway
\* `"application/json" in content_type`: content_type as its tokens
Contains(content_type, token) ==
  \E i \in 1..Len(content_type) : content_type[i] = token

Request(content_type, x_tenant_id, body) ==
  [content_type |-> content_type, x_tenant_id |-> x_tenant_id, body |-> body]

NoFields == [tenant_id |-> Null, log_id |-> Null, text |-> Null, source |-> Null]

\* Outcome of a handler stage: an HTTP error raised (status, detail), or the
\* fields it resolved.
Raise(status, detail) ==
  [ok |-> FALSE, status |-> status, detail |-> detail, fields |-> NoFields]
\* an exception no handler catches: the framework answers 500
Unhandled(exc) == Raise(500, exc)
Resolved(tenant_id, log_id, text, source) ==
  [ok |-> TRUE, status |-> 0, detail |-> "",
   fields |-> [tenant_id |-> tenant_id, log_id |-> log_id, text |-> text,
               source |-> source]]

\* main.py lines 38-64: dispatch on the declared content type
Dispatch(req, uuid) ==
  IF Contains(req.content_type, "application/json")
  THEN IF JsonLoadsError(req.body) = "JSONDecodeError"
       THEN Raise(400, "Invalid JSON")
       ELSE IF JsonLoadsError(req.body) # "none"
       THEN Unhandled(JsonLoadsError(req.body))
       ELSE IF GetError(req.body) # "none"
       THEN Unhandled(GetError(req.body))
       ELSE Resolved(DictGet(req.body.pairs, "tenant_id", Null),
                     DictGet(req.body.pairs, "log_id", Null),
                     DictGet(req.body.pairs, "text", Null),
                     SourceJson)
  ELSE IF Contains(req.content_type, "text/plain")
  THEN IF ~req.body.utf8
       THEN Unhandled("UnicodeDecodeError")
       ELSE Resolved(req.x_tenant_id, uuid, Str(req.body.chars), SourceText)
  ELSE Raise(415, "Content-Type must be application/json or text/plain")

\* whether dispatch reaches line 57 and draws a uuid
DrawsUuid(req) ==
  /\ ~Contains(req.content_type, "application/json")
  /\ Contains(req.content_type, "text/plain")
  /\ req.body.utf8

\* the validation with its two checks in the other order
ValidateTextFirst(d) ==
  IF ~d.ok THEN d
  ELSE IF ~Truthy(d.fields.text) THEN Raise(400, "Missing or empty text")
  ELSE IF d.fields.text.k # "str" THEN Unhandled("AttributeError")
  ELSE IF Strip(d.fields.text.s) = <<>> THEN Raise(400, "Missing or empty text")
  ELSE IF ~Truthy(d.fields.tenant_id) THEN Raise(400, "Missing tenant_id")
  ELSE d

\* main.py lines 66-70: validation, tenant_id first, text second
Validate(d) ==
  IF ~d.ok THEN d
  ELSE IF ~Truthy(d.fields.tenant_id) THEN Raise(400, "Missing tenant_id")
  ELSE IF ~Truthy(d.fields.text) THEN Raise(400, "Missing or empty text")
  ELSE IF d.fields.text.k # "str" THEN Unhandled("AttributeError")
  ELSE IF Strip(d.fields.text.s) = <<>> THEN Raise(400, "Missing or empty text")
  ELSE d

\* main.py line 81: `if publisher and topic_path`
Connected == mode = "production"

\* The HTTP response of /ingest.  returned: the handler returned normally,
\* with value ({"status": "accepted", "log_id": log_id}, second).  The route
\* is declared `@app.post("/ingest")` with no status_code, so the framework
\* sends the returned value as the JSON body under its default status; the
\* number in the tuple is part of the body.
DefaultStatus == 200
IngestReturn(log_id) ==
  [status |-> DefaultStatus, returned |-> TRUE, detail |-> "accepted",
   log_id |-> log_id, second |-> 202]
IngestError(status, detail) ==
  [status |-> status, returned |-> FALSE, detail |-> detail,
   log_id |-> Null, second |-> 0]

\* the publish placed ahead of validation
PublishesUnvalidated(v, pubOk) == Connected /\ pubOk

\* main.py lines 80-84: the message reaches the queue when a publisher is
\* configured and future.result() returns
Publishes(v, pubOk) == v.ok /\ Connected /\ pubOk

\* the handler not waiting for future.result()
IngestResponseNoWait(v, pubOk) ==
  IF ~v.ok THEN IngestError(v.status, v.detail)
  ELSE IngestReturn(v.fields.log_id)

\* degraded mode accepting whatever was dispatched, without the validation
IngestResponseDevLenient(connected, v, pubOk) ==
  IF ~connected THEN IngestReturn(v.fields.log_id)
  ELSE IF ~v.ok THEN IngestError(v.status, v.detail)
  ELSE IF ~pubOk THEN IngestError(500, "publish failed")
  ELSE IngestReturn(v.fields.log_id)

\* main.py lines 66-89: the response, given whether a publisher is configured
IngestResponseIn(connected, v, pubOk) ==
  IF ~v.ok THEN IngestError(v.status, v.detail)
  ELSE IF connected /\ ~pubOk THEN IngestError(500, "publish failed")
  ELSE IngestReturn(v.fields.log_id)

\* main.py lines 36-89: the response of the whole handler
IngestResponse(v, pubOk) == IngestResponseIn(Connected, v, pubOk)

\* what the queue keeps for a message it has just received
NewPush ==
  [deliveries |-> 0, acked |-> FALSE, inflight |-> FALSE, status |-> 0,
   stage |-> "none"]

\* main.py lines 36-89: the whole handler.  pubOk: whether future.result()
\* returns (the queue confirmed receipt) or raises.
Ingest(req, pubOk) ==
  /\ nIngest < MaxIngest
  /\ Len(queue) < MaxQueue
  /\ LET v == Validate(Dispatch(req, Uuid(uuidCtr + 1)))
         resp == IngestResponse(v, pubOk)
     IN  /\ nIngest' = nIngest + 1
         /\ uuidCtr' = IF DrawsUuid(req) THEN uuidCtr + 1 ELSE uuidCtr
         /\ queue' = IF Publishes(v, pubOk)
                     THEN Append(queue, WrapPush(JsonDumps(v.fields)))
                     ELSE queue
         /\ push' = IF Publishes(v, pubOk) THEN Append(push, NewPush) ELSE push
         /\ ingestResp' = [req |-> req, resp |-> resp]
         /\ accepted' = IF resp.returned
                        THEN accepted \cup
                             {[n |-> nIngest + 1, message |-> v.fields,
                               log_id |-> resp.log_id,
                               msg |-> IF Publishes(v, pubOk)
                                       THEN Len(queue) + 1 ELSE 0]}
                        ELSE accepted
  /\ UNCHANGED <<mode, store, clock, nInject, firstDoc>>

\* ---------------------------------------------------------------- Worker
\* Outcome of the try body up to the transform (worker.py lines 32-55): the
\* exception raised (exc, with the status an HTTPException carries) and the
\* stage that raised it, or the fields read from the payload.
Raised(exc, code, stage) ==
  [exc |-> exc, code |-> code, stage |-> stage, fields |-> NoFields]
Passed(fields) == [exc |-> "none", code |-> 0, stage |-> "persist", fields |-> fields]

PayloadFields(bytes) ==
  [tenant_id |-> DictGet(bytes.pairs, "tenant_id", Null),
   log_id |-> DictGet(bytes.pairs, "log_id", Null),
   text |-> DictGet(bytes.pairs, "text", Null),
   source |-> DictGet(bytes.pairs, "source", SourceUnknown)]

\* worker.py lines 32-55
TryBody(env) ==
  IF ~env.json THEN Raised("JSONDecodeError", 0, "envelope")
  ELSE IF ~env.hasMessage THEN Raised("HTTPException", 400, "envelope")
  ELSE IF ~env.hasData THEN Raised("KeyError", 0, "decode")
  ELSE IF ~env.data.valid THEN Raised("binascii.Error", 0, "decode")
  ELSE IF JsonLoadsError(env.data.bytes) # "none"
  THEN Raised(JsonLoadsError(env.data.bytes), 0, "decode")
  ELSE IF GetError(env.data.bytes) # "none"
  THEN Raised(GetError(env.data.bytes), 0, "fields")
  ELSE LET f == PayloadFields(env.data.bytes)
       IN  IF ~Truthy(f.tenant_id) \/ ~Truthy(f.log_id) \/ ~Truthy(f.text)
           THEN Raised("HTTPException", 400, "fields")
           ELSE IF f.text.k # "str" THEN Raised("TypeError", 0, "transform")
           ELSE Passed(f)

\* the generic clause answering normally instead of raising
ExceptStatusSwallowed(exc, code) == IF exc = "JSONDecodeError" THEN 400 ELSE 200

\* worker.py lines 80-86: the except clauses around the whole body.  The
\* first clause takes json.JSONDecodeError; the second, `except Exception`,
\* takes every other exception, the HTTPExceptions raised in the body
\* included, and raises HTTPException(500).
ExceptStatus(exc, code) == IF exc = "JSONDecodeError" THEN 400 ELSE 500

\* worker.py line 51, in hundredths of a second: len(text) * 0.05
CentisPerChar == 5
ProcessingTime(text) == Len(text) * CentisPerChar

\* the text stored unredacted
RedactNothing(text) == text

\* worker.py line 55
Redact(text) == StrReplace(text, PhonePrefix, Redacted)

\* worker.py lines 58-68: the document reference and the document written
DocPath(f) == [tenant_id |-> f.tenant_id, log_id |-> f.log_id]
DocContent(f) ==
  [source |-> f.source,
   original_text |-> f.text.s,
   modified_data |-> Redact(f.text.s),
   processing_time_seconds |-> ProcessingTime(f.text.s),
   text_length |-> Len(f.text.s)]
Document(f, now) == [path |-> DocPath(f), content |-> DocContent(f), processed_at |-> now]

\* a write that adds a document instead of replacing the one at the path
StoreAdd(st, doc) == st \cup {doc}

\* a store keyed by log_id alone, without the tenant partition
StoreSetByLogId(st, doc) ==
  {d \in st : d.path.log_id # doc.path.log_id} \cup {doc}

\* a write that merges into the document at the path (set with merge): the
\* fields written replace the old ones, source is kept from the old document
StoreMerge(st, doc) ==
  LET old == {d \in st : d.path = doc.path}
  IN  {d \in st : d.path # doc.path}
      \cup {[doc EXCEPT !.content.source =
                IF old = {} THEN @ ELSE (CHOOSE o \in old : TRUE).content.source]}

\* doc_ref.set(...): replaces whatever document is at the path
StoreSet(st, doc) == {d \in st : d.path # doc.path} \cup {doc}

\* worker.py lines 72 and 85: the queue takes a 5xx answer as "retry" and
\* any other answer as final
QueueAcks(status) == status < 500

Deliverable(i) ==
  /\ i \in 1..Len(queue)
  /\ ~push[i].acked
  /\ ~push[i].inflight
  /\ push[i].deliveries < MaxDeliveries

\* worker.py lines 26-55 and 80-86: the queue pushes message i; the handler
\* runs up to the write, or answers with an error
ProcessBegin(i) ==
  /\ Deliverable(i)
  /\ LET out == TryBody(queue[i])
         status == ExceptStatus(out.exc, out.code)
     IN  push' = [push EXCEPT ![i] =
                    IF out.exc = "none"
                    THEN [deliveries |-> @.deliveries + 1, acked |-> FALSE,
                          inflight |-> TRUE, status |-> 0, stage |-> "persist"]
                    ELSE [deliveries |-> @.deliveries + 1,
                          acked |-> QueueAcks(status), inflight |-> FALSE,
                          status |-> status, stage |-> out.stage]]
  /\ UNCHANGED <<mode, queue, store, clock, nIngest, uuidCtr, ingestResp,
                 accepted, nInject, firstDoc>>

\* worker.py lines 57-78 and 83-86: the write and the answer.  setOk: whether
\* doc_ref.set returns (the store confirmed the write) or raises.
ProcessPersist(i, setOk) ==
  /\ i \in 1..Len(queue)
  /\ push[i].inflight
  /\ LET f == TryBody(queue[i]).fields
         status == IF setOk THEN DefaultStatus ELSE ExceptStatus("Exception", 0)
     IN  /\ store' = IF setOk THEN StoreSet(store, Document(f, clock + 1)) ELSE store
         /\ clock' = IF setOk THEN clock + 1 ELSE clock
         /\ firstDoc' = IF setOk /\ ~\E e \in firstDoc : e.payload = queue[i].data.bytes
                        THEN firstDoc \cup
                             {[payload |-> queue[i].data.bytes,
                               content |-> d.content] :
                                d \in {e \in store' : e.path = DocPath(f)}}
                        ELSE firstDoc
         /\ push' = [push EXCEPT ![i] =
                       [deliveries |-> @.deliveries, acked |-> QueueAcks(status),
                        inflight |-> FALSE, status |-> status,
                        stage |-> IF setOk THEN "ack" ELSE "persist"]]
  /\ UNCHANGED <<mode, queue, nIngest, uuidCtr, ingestResp, accepted, nInject>>

\* worker.py lines 26-32: /process takes whatever body is posted to it; a
\* producer other than the Gateway puts an envelope on the subscription
Inject(env) ==
  /\ nInject < MaxInject
  /\ Len(queue) < MaxQueue
  /\ nInject' = nInject + 1
  /\ queue' = Append(queue, env)
  /\ push' = Append(push, NewPush)
  /\ UNCHANGED <<mode, store, clock, nIngest, uuidCtr, ingestResp, accepted,
                 firstDoc>>

\* ----------------------------------------------------------------- inputs
Absent == [k |-> "absent", s |-> <<>>, n |-> 0]
Opt(key, v) == IF v.k = "absent" THEN <<>> ELSE <<Item(key, v)>>

Acme == <<"a", "c", "m", "e">>
Beta == <<"b", "e", "t", "a">>
L1 == <<"L", "1">>
L2 == <<"L", "2">>
BlankText == <<" ", "\t">>
PhoneText == <<"c", " ", "5", "5", "5", "-", "1">>
PlainText == <<"h", "i">>

\* JSON bodies of /ingest: an object with any of the three keys
IngestObject(t, l, x) ==
  JsonObjectBytes(Opt("tenant_id", t) \o Opt("log_id", l) \o Opt("text", x))

JsonContentType == <<"application/json">>
TextContentType == <<"text/plain">>

JsonRequests ==
  {Request(JsonContentType, Null, b) :
     b \in {InvalidBytes, RawBytes(PlainText), JsonArrayBytes}
           \cup {IngestObject(t, l, x) :
                   t \in {Absent, Str(<<>>), Str(Acme), Str(Beta)},
                   l \in {Absent, Str(L1)},
                   x \in {Absent, Str(<<>>), Str(BlankText), Str(PhoneText),
                          Str(PlainText), Num(5)}}}

TextRequests ==
  {Request(TextContentType, h, b) :
     h \in {Null, Str(<<>>), Str(Acme), Str(Beta)},
     b \in {InvalidBytes, RawBytes(<<>>), RawBytes(BlankText),
            RawBytes(PhoneText)}}

OtherRequests ==
  {Request(ct, Str(Acme), RawBytes(PlainText)) :
     ct \in {<<>>, <<"application/xml">>}}

\* content types that carry the token "application/json" or "text/plain":
\* the type with a parameter, and another media type whose name begins with
\* it (application/json-seq, RFC 7464)
CharsetParam == "; charset=utf-8"
VariantRequests ==
  {Request(ct, Null, IngestObject(Str(Acme), Str(L1), Str(PlainText))) :
     ct \in {<<"application/json", CharsetParam>>,
             <<"application/json", "-seq">>}}
  \cup {Request(<<"text/plain", CharsetParam>>, Str(Acme), RawBytes(PlainText))}

Requests == JsonRequests \cup TextRequests \cup OtherRequests \cup VariantRequests

\* payloads a producer other than the Gateway may publish
Payload(t, l, x, src) ==
  JsonObjectBytes(Opt("tenant_id", t) \o Opt("log_id", l) \o Opt("text", x)
                  \o Opt("source", src))

InjectedEnvelopes ==
  {Envelope(FALSE, FALSE, FALSE, NotBase64),
   Envelope(TRUE, FALSE, FALSE, NotBase64),
   Envelope(TRUE, TRUE, FALSE, NotBase64),
   Envelope(TRUE, TRUE, TRUE, NotBase64),
   WrapPush(InvalidBytes),
   WrapPush(RawBytes(PlainText)),
   WrapPush(JsonArrayBytes),
   WrapPush(Payload(Absent, Str(L1), Str(PlainText), SourceJson)),
   WrapPush(Payload(Str(Acme), Absent, Str(PlainText), SourceJson)),
   WrapPush(Payload(Str(Acme), Str(L1), Str(<<>>), SourceJson)),
   WrapPush(Payload(Str(Acme), Str(L1), Str(PlainText), Absent)),
   WrapPush(Payload(Str(Acme), Str(L1), Str(PhoneText), SourceJson)),
   WrapPush(Payload(Str(Beta), Str(L1), Str(PlainText), SourceText)),
   WrapPush(Payload(Str(Acme), Str(L2), Str(PlainText), SourceJson))}

\* ------------------------------------------------------------ specification
NoRequest == Request(<<>>, Null, RawBytes(<<>>))

Init ==
  /\ mode \in {"production", "dev"}
  /\ queue = <<>>
  /\ push = <<>>
  /\ store = {}
  /\ clock = 0
  /\ nIngest = 0
  /\ uuidCtr = 0
  /\ ingestResp = [req |-> NoRequest, resp |-> IngestError(0, "")]
  /\ accepted = {}
  /\ nInject = 0
  /\ firstDoc = {}

\* POST /ingest alone, over every request
GatewayNext ==
  \E req \in Requests, pubOk \in BOOLEAN : Ingest(req, pubOk)

GatewaySpec == Init /\ [][GatewayNext]_vars

\* POST /process alone, over every envelope the subscription may carry
WorkerNext ==
  \/ \E env \in InjectedEnvelopes : Inject(env)
  \/ \E i \in 1..Len(queue) : ProcessBegin(i)
  \/ \E i \in 1..Len(queue), setOk \in BOOLEAN : ProcessPersist(i, setOk)

WorkerSpec == Init /\ [][WorkerNext]_vars

\* the pipeline: client -> Gateway -> queue -> Worker -> store
PipelineRequests ==
  {Request(JsonContentType, Null, IngestObject(Str(Acme), Str(L1), Str(PhoneText))),
   Request(JsonContentType, Null, IngestObject(Str(Acme), Absent, Str(PlainText))),
   Request(JsonContentType, Null, IngestObject(Absent, Str(L1), Str(PlainText))),
   Request(JsonContentType, Null, RawBytes(PlainText)),
   Request(TextContentType, Str(Beta), RawBytes(PhoneText)),
   Request(TextContentType, Str(Beta), RawBytes(BlankText)),
   Request(<<"application/xml">>, Str(Acme), RawBytes(PlainText))}

PipelineEnvelopes ==
  {Envelope(TRUE, FALSE, FALSE, NotBase64),
   WrapPush(RawBytes(PlainText)),
   WrapPush(Payload(Str(Acme), Str(L1), Str(<<>>), SourceJson))}

Next ==
  \/ \E req \in PipelineRequests, pubOk \in BOOLEAN : Ingest(req, pubOk)
  \/ \E env \in PipelineEnvelopes : Inject(env)
  \/ \E i \in 1..Len(queue) : ProcessBegin(i)
  \/ \E i \in 1..Len(queue), setOk \in BOOLEAN : ProcessPersist(i, setOk)

Spec == Init /\ [][Next]_vars

\* worker.py line 85: the queue goes on pushing a message answered 5xx after
\* the attempts the model counts; the handler runs as in ProcessBegin. The
\* handler is deterministic in the envelope, so a message it answered 500
\* before the write is answered 500 again and the state does not change:
\* the endless redelivery of such a message shows as stuttering.
Redeliver(i) ==
  /\ i \in 1..Len(queue)
  /\ ~push[i].acked
  /\ ~push[i].inflight
  /\ push[i].deliveries = MaxDeliveries
  /\ LET out == TryBody(queue[i])
         status == ExceptStatus(out.exc, out.code)
     IN  push' = [push EXCEPT ![i] =
                    IF out.exc = "none"
                    THEN [deliveries |-> @.deliveries, acked |-> FALSE,
                          inflight |-> TRUE, status |-> 0, stage |-> "persist"]
                    ELSE [deliveries |-> @.deliveries,
                          acked |-> QueueAcks(status), inflight |-> FALSE,
                          status |-> status, stage |-> out.stage]]
  /\ UNCHANGED <<mode, queue, store, clock, nIngest, uuidCtr, ingestResp,
                 accepted, nInject, firstDoc>>

\* the pipeline with a queue that redelivers without end
LiveNext ==
  \/ \E req \in PipelineRequests, pubOk \in BOOLEAN : Ingest(req, pubOk)
  \/ \E env \in PipelineEnvelopes : Inject(env)
  \/ \E i \in 1..Len(queue) : ProcessBegin(i)
  \/ \E i \in 1..Len(queue), setOk \in BOOLEAN : ProcessPersist(i, setOk)
  \/ \E i \in 1..Len(queue) : Redeliver(i)

\* the queue pushes every message it holds and pushes again every message
\* answered 5xx (weak fairness on delivery); the store is eventually
\* available (a write tried again and again eventually succeeds)
LiveSpec ==
  /\ Init
  /\ [][LiveNext]_vars
  /\ \A i \in 1..MaxQueue :
       /\ WF_vars(ProcessBegin(i))
       /\ WF_vars(Redeliver(i))
       /\ SF_vars(ProcessPersist(i, TRUE))

\* ------------------------------------------------------------ vocabulary
\* message i has been answered by /process at least once, and is not in flight
Answered(i) == push[i].status # 0

\* the envelope is a JSON object with no "message" key
NoMessageKey(env) == env.json /\ ~env.hasMessage

\* the envelope carries data that decodes to a JSON object
DecodesToObject(env) ==
  /\ env.json /\ env.hasMessage /\ env.hasData /\ env.data.valid
  /\ env.data.bytes.utf8 /\ env.data.bytes.json /\ env.data.bytes.object

RequiredKeys == {"tenant_id", "log_id", "text"}

\* the decoded payload lacks, or has an empty value for, a required field
LacksRequired(env) ==
  /\ DecodesToObject(env)
  /\ \E key \in RequiredKeys : ~Truthy(DictGet(env.data.bytes.pairs, key, Null))

\* the payload cannot be decoded: no data, not base64, not UTF-8, not JSON
Undecodable(env) ==
  /\ env.json /\ env.hasMessage
  /\ \/ ~env.hasData
     \/ ~env.data.valid
     \/ ~env.data.bytes.utf8
     \/ ~env.data.bytes.json

StructuralDefect(env) == NoMessageKey(env) \/ Undecodable(env) \/ LacksRequired(env)

\* a payload /process can store
Storable(env) ==
  /\ DecodesToObject(env)
  /\ ~LacksRequired(env)
  /\ DictGet(env.data.bytes.pairs, "text", Null).k = "str"

DocsAt(st, path) == {d \in st : d.path = path}

\* the last /ingest request, its fields as the client sent them
LastReq == ingestResp.req
LastResp == ingestResp.resp
IsJsonRequest(req) == Contains(req.content_type, "application/json")
IsTextRequest(req) ==
  ~IsJsonRequest(req) /\ Contains(req.content_type, "text/plain")
JsonField(req, key) == DictGet(req.body.pairs, key, Null)
NonBlankStr(v) == v.k = "str" /\ Strip(v.s) # <<>>
BlankStr(v) == v.k = "str" /\ Strip(v.s) = <<>>

\* a JSON request whose body is an object with non-empty tenant_id and
\* non-blank text
ValidJsonRequest(req) ==
  /\ IsJsonRequest(req)
  /\ req.body.utf8 /\ req.body.json /\ req.body.object
  /\ Truthy(JsonField(req, "tenant_id"))
  /\ NonBlankStr(JsonField(req, "text"))

\* a plain-text request with a tenant header and a non-blank body
ValidTextRequest(req) ==
  /\ IsTextRequest(req)
  /\ req.body.utf8
  /\ Truthy(req.x_tenant_id)
  /\ Strip(req.body.chars) # <<>>

\* the queue confirmed the publish of the last request (or none was tried)
PublishFailed == LastResp.detail = "publish failed"

\* the entry of `accepted` for the last request
LastAccepted == {a \in accepted : a.n = nIngest}

\* the fields of the message at position i of the queue, as written on the wire
Wire(i, key) == DictGet(queue[i].data.bytes.pairs, key, Null)

\* ------------------------------------------------------------------ claims
\* C1: /process answers 400, never 500, to an envelope with no "message"
\* key and to a payload that lacks (or has empty) tenant_id, log_id or text.
C1_ProcessAnswers400 ==
  \A i \in 1..Len(queue) :
    (Answered(i) /\ (NoMessageKey(queue[i]) \/ LacksRequired(queue[i])))
      => push[i].status = 400

\* C2: a JSON /ingest request with non-empty tenant_id and non-blank text is
\* answered 202, publishes exactly one message, with source "json" and the
\* client's log_id (when supplied) both on the queue and in the response.
\* Stated for the connected Gateway whose publish was confirmed.
C2_JsonAccepted202 ==
  (nIngest > 0 /\ ValidJsonRequest(LastReq) /\ Connected /\ ~PublishFailed)
    => /\ LastResp.status = 202
       /\ \E a \in LastAccepted :
            /\ a.msg = Len(queue)
            /\ a.msg > 0
            /\ Wire(a.msg, "source") = SourceJson
            /\ Truthy(JsonField(LastReq, "log_id"))
                 => /\ Wire(a.msg, "log_id") = JsonField(LastReq, "log_id")
                    /\ LastResp.log_id = JsonField(LastReq, "log_id")

\* C3: every message the Gateway has placed on the queue has tenant_id,
\* log_id, text and source populated, and a text that is not blank.
C3_QueuedMessagesPopulated ==
  \A i \in 1..Len(queue) :
    /\ \A key \in RequiredKeys \cup {"source"} : Truthy(Wire(i, key))
    /\ NonBlankStr(Wire(i, "text"))

\* C4: redelivery safety.  Each time /process succeeds for a payload, the
\* store holds exactly one document at the payload's (tenant_id, log_id), and
\* its content other than processed_at is what the store held after the
\* first successful invocation for that payload.
C4_RedeliverySafe ==
  [][\A i \in 1..Len(push) :
       (push[i].inflight /\ push'[i].stage = "ack")
         => LET path == DocPath(PayloadFields(queue[i].data.bytes))
            IN  /\ Cardinality(DocsAt(store', path)) = 1
                /\ \E e \in firstDoc' :
                     /\ e.payload = queue[i].data.bytes
                     /\ \A d \in DocsAt(store', path) : d.content = e.content]_vars

\* a payload processed successfully twice: the second write replaced the first
C4_Witness ==
  \E i, j \in 1..Len(queue) :
    /\ i # j
    /\ queue[i] = queue[j]
    /\ push[i].stage = "ack" /\ push[j].stage = "ack"
    /\ \E d \in store : d.processed_at = 2

\* C5: with a queue that redelivers only on 5xx, a message with a structural
\* defect is answered 4xx on every delivery and so is delivered once.
C5_DefectNotRedelivered ==
  \A i \in 1..Len(queue) :
    StructuralDefect(queue[i])
      => /\ push[i].deliveries <= 1
         /\ Answered(i) => push[i].status \in 400..499

\* C6: /process answers 2xx only with the document written at the payload's
\* key; an invocation still waiting for the store has answered nothing; an
\* invocation whose write failed answers 500 and is not acknowledged.
C6_SuccessOnlyAfterWrite ==
  \A i \in 1..Len(queue) :
    /\ push[i].status \in 200..299
         => /\ Storable(queue[i])
            /\ push[i].stage = "ack"
            /\ DocsAt(store, DocPath(PayloadFields(queue[i].data.bytes))) # {}
    /\ push[i].inflight => push[i].status = 0
    /\ (push[i].stage = "persist" /\ ~push[i].inflight)
         => push[i].status = 500 /\ ~push[i].acked

\* one invocation answered 500 after a failed write, another answered 200
C6_Witness ==
  \E i, j \in 1..Len(queue) :
    /\ push[i].stage = "persist" /\ push[i].status = 500
    /\ push[j].status = 200
    /\ store # {}

\* every accepted response has its canonical message on the queue
AcceptedAreQueued ==
  /\ \A a \in accepted :
       /\ a.msg \in 1..Len(queue)
       /\ queue[a.msg] = WrapPush(JsonDumps(a.message))
  /\ \A a, b \in accepted : a.n # b.n => a.msg # b.msg

\* C7 as stated: whenever /ingest has returned its accepted response, the
\* canonical message of that request is on the queue.
C7_AcceptedIsQueued == AcceptedAreQueued

\* C7 amended: with a publisher configured, whenever /ingest has returned its
\* accepted response the queue has confirmed the canonical message of that
\* request; a failed publish is answered 500.
C7_AcceptedIsQueuedWhenConnected ==
  Connected => /\ AcceptedAreQueued
               /\ PublishFailed => LastResp.status = 500 /\ ~LastResp.returned

\* two requests accepted by the connected Gateway
C7_Witness == Connected /\ Cardinality(accepted) = 2 /\ Len(queue) = 2

\* C8: /ingest answers 400 to every JSON or plain-text request whose text is
\* empty or whitespace-only, or whose tenant_id is missing or empty.
C8_BlankOrTenantless400 ==
  LET jsonCase ==
        /\ IsJsonRequest(LastReq)
        /\ LastReq.body.utf8 /\ LastReq.body.json /\ LastReq.body.object
        /\ \/ ~Truthy(JsonField(LastReq, "tenant_id"))
           \/ BlankStr(JsonField(LastReq, "text"))
      textCase ==
        /\ IsTextRequest(LastReq)
        /\ \/ ~Truthy(LastReq.x_tenant_id)
           \/ LastReq.body.utf8 /\ Strip(LastReq.body.chars) = <<>>
  IN  (nIngest > 0 /\ (jsonCase \/ textCase)) => LastResp.status = 400

\* C9: a rejected /ingest request (400 or 415) publishes nothing, and a
\* /process invocation that fails envelope validation, payload decode or field
\* validation writes nothing.
C9_RejectionsChangeNothing ==
  [][/\ (nIngest' = nIngest + 1 /\ ingestResp'.resp.status \in {400, 415})
          => queue' = queue /\ push' = push
     /\ \A i \in 1..Len(push) :
          (/\ push'[i].deliveries = push[i].deliveries + 1
           /\ push'[i].stage \in {"envelope", "decode", "fields"})
            => store' = store /\ clock' = clock]_vars

\* a rejected request and a rejected message, with a message queued and a
\* document stored beside them
C9_Witness ==
  /\ LastResp.status \in {400, 415}
  /\ Len(queue) = 2
  /\ store # {}
  /\ \E i \in 1..Len(queue) : push[i].stage \in {"envelope", "decode", "fields"}

\* C10: a text/plain /ingest request with a tenant header and a non-blank
\* body is answered 202; its message has source "text_upload", the header's
\* tenant_id and a generated log_id, different for any two accepted
\* plain-text requests.  Stated for the connected Gateway whose publish was
\* confirmed.
C10_TextAccepted202 ==
  (nIngest > 0 /\ ValidTextRequest(LastReq) /\ Connected /\ ~PublishFailed)
    => /\ LastResp.status = 202
       /\ \E a \in LastAccepted :
            /\ a.msg = Len(queue)
            /\ a.msg > 0
            /\ Wire(a.msg, "source") = SourceText
            /\ Wire(a.msg, "tenant_id") = LastReq.x_tenant_id
            /\ Wire(a.msg, "log_id") = LastResp.log_id
       /\ \A a, b \in accepted :
            (a.n # b.n /\ a.message.source = SourceText
                       /\ b.message.source = SourceText)
              => a.log_id # b.log_id


\* the Content-Type header names the media type `type`, with or without
\* parameters
DeclaresType(content_type, type) ==
  /\ content_type # <<>>
  /\ content_type[1] = type
  /\ \A i \in 2..Len(content_type) : content_type[i] = CharsetParam
DeclaresJson(req) == DeclaresType(req.content_type, "application/json")
DeclaresText(req) == DeclaresType(req.content_type, "text/plain")

\* C11: /ingest answers 415, and publishes nothing, to every request whose
\* declared content type is neither application/json nor text/plain, a
\* request with no Content-Type included.  Stated for a Gateway whose
\* publish, if it tried one, was confirmed.
C11_OtherTypes415 ==
  (/\ nIngest > 0 /\ ~PublishFailed
   /\ ~DeclaresJson(LastReq) /\ ~DeclaresText(LastReq))
    => /\ LastResp.status = 415
       /\ LastAccepted = {}


\* the uuid the Gateway drew for the last request, if it drew one
LastUuid == Uuid(IF uuidCtr = 0 THEN 1 ELSE uuidCtr)

\* the response a Gateway with (connected) or without a publisher gives to
\* the last request, its publish confirmed
ResponseOfMode(connected) ==
  IngestResponseIn(connected, Validate(Dispatch(LastReq, LastUuid)), TRUE)

\* C12: the HTTP contract is the same with and without a configured queue.
\* The response to every /ingest request (status, body, log_id for the same
\* generated value) is the response a Gateway in the other mode gives to that
\* request when its publish succeeds, for rejected requests too.
C12_SameContractBothModes ==
  (nIngest > 0 /\ ~PublishFailed)
    => /\ LastResp = ResponseOfMode(~Connected)
       /\ LastResp = ResponseOfMode(Connected)

\* degraded mode: a request accepted with nothing published, then one rejected
C12_Witness ==
  /\ ~Connected
  /\ nIngest = 2
  /\ Cardinality(accepted) = 1
  /\ queue = <<>>
  /\ LastResp.status = 400


\* "call 555-1234" and "call [REDACTED]-1234"
CallText == <<"c", "a", "l", "l", " ", "5", "5", "5", "-", "1", "2", "3", "4">>
CallRedacted ==
  <<"c", "a", "l", "l", " ", "[", "R", "E", "D", "A", "C", "T", "E", "D", "]",
    "-", "1", "2", "3", "4">>

\* the texts of the requests, with every "555-" replaced by "[REDACTED]-",
\* written out
ExpectedRedaction(x) ==
  CASE x = PhoneText -> <<"c", " ", "[", "R", "E", "D", "A", "C", "T", "E", "D",
                          "]", "-", "1">>
    [] x = PlainText -> <<"h", "i">>
    [] x = CallText -> CallRedacted

\* the accepted JSON requests that carried a log_id and were published
AcceptedJson ==
  {a \in accepted : /\ a.msg > 0
                    /\ a.message.source = SourceJson
                    /\ Truthy(a.message.log_id)}

\* C13: end to end.  When the Worker answers success for the message of an
\* accepted JSON entry {tenant_id: t, log_id: l, text: x}, the store holds at
\* (t, l) a document with original_text x, source "json" and modified_data x
\* with every "555-" replaced by "[REDACTED]-"; documents of the same text
\* have the same modified_data; "call 555-1234" gives "call [REDACTED]-1234".
C13_EndToEnd ==
  [][/\ \A a \in AcceptedJson :
          (push[a.msg].inflight /\ push'[a.msg].stage = "ack")
            => LET docs == DocsAt(store', [tenant_id |-> a.message.tenant_id,
                                           log_id |-> a.message.log_id])
               IN  /\ docs # {}
                   /\ \A d \in docs :
                        /\ d.content.original_text = a.message.text.s
                        /\ d.content.source = SourceJson
                        /\ d.content.modified_data
                             = ExpectedRedaction(a.message.text.s)
     /\ \A d, e \in store' :
          d.content.original_text = e.content.original_text
            => d.content.modified_data = e.content.modified_data
     /\ Redact(CallText) = CallRedacted]_vars

\* the JSON entry with a phone number, accepted, processed and stored redacted
C13_Witness ==
  \E a \in AcceptedJson :
    /\ push[a.msg].stage = "ack"
    /\ a.message.text.s = PhoneText
    /\ \E d \in store :
         /\ d.path = [tenant_id |-> Str(Acme), log_id |-> Str(L1)]
         /\ d.content.modified_data = ExpectedRedaction(PhoneText)


\* C14: every failure to decode or parse the message data (no data field,
\* data that is not base64, bytes that are not UTF-8 JSON) is answered 400,
\* never 500.
C14_DecodeFailure400 ==
  \A i \in 1..Len(queue) :
    (Answered(i) /\ Undecodable(queue[i])) => push[i].status = 400

\* the request declared as JSON that /ingest cannot accept: a body that is
\* not JSON, not an object, or with a missing or invalid tenant_id or text
InvalidJsonRequest(req) == DeclaresJson(req) /\ ~ValidJsonRequest(req)

\* C15: a request declared as JSON fails only with 400: malformed JSON, a
\* body that is not an object, a missing or invalid tenant_id or text (a
\* text that is not a string included) are answered 400, and no such
\* request is answered 5xx.  Stated for bodies that are valid UTF-8.
C15_JsonFailsOnly400 ==
  (nIngest > 0 /\ InvalidJsonRequest(LastReq) /\ LastReq.body.utf8)
    => LastResp.status = 400

\* the payload of message i carries the key
Carries(i, key) ==
  \E n \in 1..Len(queue[i].data.bytes.pairs) :
    queue[i].data.bytes.pairs[n].key = key

\* document d holds what the payload of message i carries, and nothing else
\* in its LogEntry fields
FromPayload(d, i) ==
  /\ DecodesToObject(queue[i])
  /\ \A key \in RequiredKeys \cup {"source"} : Carries(i, key)
  /\ d.path = [tenant_id |-> Wire(i, "tenant_id"), log_id |-> Wire(i, "log_id")]
  /\ Str(d.content.original_text) = Wire(i, "text")
  /\ d.content.source = Wire(i, "source")

\* C16: the Worker substitutes no value for a field the payload lacks: every
\* stored document has its source, original_text, tenant_id and log_id from
\* the payload of a message; a payload without source is rejected, not
\* stored with an invented source.
C16_NoInventedFields ==
  \A d \in store : \E i \in 1..Len(queue) : FromPayload(d, i)


\* the text the last request resolves to is missing, empty or whitespace
LastTextBlank ==
  \/ /\ IsJsonRequest(LastReq)
     /\ LastReq.body.utf8 /\ LastReq.body.json /\ LastReq.body.object
     /\ \/ ~Truthy(JsonField(LastReq, "text"))
        \/ BlankStr(JsonField(LastReq, "text"))
  \/ /\ IsTextRequest(LastReq)
     /\ LastReq.body.utf8
     /\ Strip(LastReq.body.chars) = <<>>

\* the tenant_id the last request resolves to
LastTenant ==
  IF IsJsonRequest(LastReq) THEN JsonField(LastReq, "tenant_id")
  ELSE LastReq.x_tenant_id

\* C17: validation runs tenant_id first, text second.  A JSON or plain-text
\* request with both a missing tenant_id and a blank text is answered
\* 400 "Missing tenant_id", and 400 "Missing or empty text" is answered only
\* to a request whose tenant_id is present and non-empty.
C17_TenantBeforeText ==
  nIngest > 0
    => /\ (LastTextBlank /\ ~Truthy(LastTenant))
            => LastResp.status = 400 /\ LastResp.detail = "Missing tenant_id"
       /\ LastResp.detail = "Missing or empty text"
            => LastResp.status = 400 /\ Truthy(LastTenant) /\ LastTextBlank

\* a request with neither tenant_id nor text, answered "Missing tenant_id"
C17_Witness ==
  /\ nIngest > 0
  /\ LastTextBlank
  /\ ~Truthy(LastTenant)
  /\ LastResp.detail = "Missing tenant_id"


\* the document /process writes for message i at server time now
DocOf(i, now) == Document(PayloadFields(queue[i].data.bytes), now)

\* C18: tenant isolation.  One /process invocation writes at most one
\* document, at the (tenant_id, log_id) of its own payload; every document at
\* another key, of another tenant or of the same tenant, is left as it was;
\* the written document replaces the prior one whole; a step that is not the
\* write of an invocation leaves the store alone.
C18_WritesOwnKeyOnly ==
  [][/\ \A i \in 1..Len(push) :
          push'[i] # push[i]
            => IF ~Storable(queue[i]) THEN store' = store
               ELSE LET path == DocOf(i, 0).path
                    IN  /\ \A d \in store : d.path # path => d \in store'
                        /\ \A d \in store' : d.path # path => d \in store
                        /\ \/ DocsAt(store', path) = DocsAt(store, path)
                           \/ DocsAt(store', path) = {DocOf(i, clock')}
                        /\ clock' \in {clock, clock + 1}
     /\ store' # store
          => \E i \in 1..Len(push) : push[i].inflight /\ ~push'[i].inflight]_vars

\* two tenants each hold a document with the same log_id
C18_Witness ==
  \E d, e \in store :
    /\ d.path.tenant_id # e.path.tenant_id
    /\ d.path.log_id = e.path.log_id
    /\ d.processed_at < e.processed_at

\* message i has been processed successfully
Succeeded(i) == push[i].stage = "ack"

\* C19: concurrent /process invocations on the same (tenant_id, log_id) with
\* different text or source leave exactly one document at that key, and it is
\* the whole document of one of the invocations that succeeded, never a
\* mixture of two.
C19_LastWriteWins ==
  \A d \in store :
    /\ Cardinality(DocsAt(store, d.path)) = 1
    /\ \E i \in 1..Len(queue) :
         /\ Succeeded(i)
         /\ Storable(queue[i])
         /\ d.path = DocOf(i, 0).path
         /\ d.content = DocOf(i, 0).content

\* two payloads with one key and different content, both processed; the one
\* queued first wrote last and its document is the one stored
C19_Witness ==
  /\ Len(queue) = 2
  /\ Succeeded(1) /\ Succeeded(2)
  /\ DocOf(1, 0).path = DocOf(2, 0).path
  /\ DocOf(1, 0).content # DocOf(2, 0).content
  /\ store = {DocOf(1, 2)}


\* message i is the message of a request /ingest accepted in connected mode
FromGateway(i) == Connected /\ \E a \in accepted : a.msg = i

\* message i has its document stored and a 2xx answer, acknowledged
StoredAndAcked(i) ==
  /\ i \in 1..Len(queue)
  /\ Succeeded(i)
  /\ push[i].status \in 200..299
  /\ push[i].acked
  /\ DocsAt(store, DocOf(i, 0).path) # {}

\* C20: with a queue that redelivers every message answered 5xx and a store
\* that is eventually available, every request /ingest accepted in connected
\* mode eventually has its document stored at (tenant_id, log_id) and a 2xx
\* acknowledgment.
C20_AcceptedEventuallyStored ==
  \A i \in 1..MaxQueue : [](FromGateway(i) => <>StoredAndAcked(i))

====
